---- MODULE Spec2Model ----
(***************************************************************************)
(* Model of src/calc.py: the bracketed prefix-notation calculator.         *)
(*                                                                         *)
(* A string is a sequence of one-character strings.  Offsets are the       *)
(* 0-based offsets of the Python source; At and Slice translate them.      *)
(* One run evaluates one input string.  The recursion of calculator is an  *)
(* explicit stack of frames; the two while loops of                        *)
(* find_end_of_expression and the argument loop of calculator advance one  *)
(* iteration per step.                                                     *)
(***************************************************************************)
EXTENDS Integers, Sequences, FiniteSets, TLC

\* input:     the string given to the outermost call (calc.py line 251)
\* stack:     the active calls of calculator, outermost first, each with
\*            its local variables (lines 133-247); kept as the traceback
\*            once an exception is raised
\* result:    what the outermost call returned or raised
\* completed: the last function call that returned, with the slices
\*            expression[start_index:end_index] of its arguments (line 234)
VARIABLES input, stack, result, completed

vars == <<input, stack, result, completed>>

-----------------------------------------------------------------------------
(* Bounds of the model *)

\* largest size of a generated string: a numeral counts 1, a call counts 2
\* more than its arguments
MaxSize == 6
\* Python integers are unbounded; every value above MaxInt is represented by Big
MaxInt == 40000

-----------------------------------------------------------------------------
(* Strings *)

Min(a, b) == IF a < b THEN a ELSE b

At(s, k) == s[k + 1]

\* s[a:b] for 0 <= a; Python clamps b to len(s)
Slice(s, a, b) == SubSeq(s, a + 1, Min(b, Len(s)))

ASCII_DIGITS == {"0", "1", "2", "3", "4", "5", "6", "7", "8", "9"}

\* U+00B2 SUPERSCRIPT TWO: str.isnumeric() accepts it, int() does not
SUPERSCRIPT_TWO == "sup2"

char_isnumeric(c) == c \in ASCII_DIGITS \cup {SUPERSCRIPT_TWO}

\* str.isnumeric(): non-empty and every character numeric
isnumeric(s) == Len(s) > 0 /\ \A k \in 1..Len(s) : char_isnumeric(s[k])

DigitValue(c) ==
    CASE c = "0" -> 0 [] c = "1" -> 1 [] c = "2" -> 2 [] c = "3" -> 3
      [] c = "4" -> 4 [] c = "5" -> 5 [] c = "6" -> 6 [] c = "7" -> 7
      [] c = "8" -> 8 [] c = "9" -> 9

Big == MaxInt + 1

Sat(n) == IF n > MaxInt THEN Big ELSE n

\* int(s) accepts decimal digits only
int_accepts(s) == \A k \in 1..Len(s) : s[k] \in ASCII_DIGITS

RECURSIVE int(_)
int(s) ==
    IF Len(s) = 0 THEN 0
    ELSE Sat(int(SubSeq(s, 1, Len(s) - 1)) * 10 + DigitValue(s[Len(s)]))

-----------------------------------------------------------------------------
(* Error messages *)

ERROR_FUNCTION_MISSING_BRACKETS == "MissingBrackets"
ERROR_FUNCTION_MISSING_PARAM == "MissingParam"
ERROR_FUNCTION_INVALID_OPERATION == "InvalidOperation"
ERROR_FUNCTION_INVALID_INPUTS == "InvalidInput"
ERROR_FUNCTION_INVALID_ARGUMENTS_COUNT == "InvalidArgumentsCount"

-----------------------------------------------------------------------------
(* Base calculator functions and reducers *)

add(a, b) == Sat(a + b)

multiply(a, b) == Sat(a * b)

\* base ** power by repeated multiplication, stopping at a fixed point
RECURSIVE PowerLoop(_, _, _)
PowerLoop(base, power, acc) ==
    IF power = 0 \/ Sat(acc * base) = acc THEN acc
    ELSE PowerLoop(base, power - 1, Sat(acc * base))

\* mutant: the arguments of ** taken in the other order
exponent_swapped(base, power) == PowerLoop(power, base, 1)

exponent(base, power) == PowerLoop(base, power, 1)

Apply(function, a, b) ==
    CASE function = "add" -> add(a, b)
      [] function = "multiply" -> multiply(a, b)
      [] function = "exponent" -> exponent(a, b)

RECURSIVE generic_tail_recursion(_, _, _)
generic_tail_recursion(function, args, acc) ==
    IF Len(args) = 0 THEN acc
    ELSE generic_tail_recursion(function, Tail(args), Apply(function, acc, args[1]))

tail_add(args) == generic_tail_recursion("add", args, 0)

tail_multiply(args) == generic_tail_recursion("multiply", args, 1)

tail_exponent(args) == generic_tail_recursion("exponent", Tail(args), args[1])

ADD == <<"a", "d", "d">>
MULTIPLY == <<"m", "u", "l", "t", "i", "p", "l", "y">>
EXPONENT == <<"e", "x", "p", "o", "n", "e", "n", "t">>

\* arguments_count 0 stands for "any"
operations ==
    (ADD :> [arguments_count |-> 0, function |-> "tail_add"])
    @@ (MULTIPLY :> [arguments_count |-> 0, function |-> "tail_multiply"])
    @@ (EXPONENT :> [arguments_count |-> 2, function |-> "tail_exponent"])

operation_function(operation, args) ==
    CASE operations[operation].function = "tail_add" -> tail_add(args)
      [] operations[operation].function = "tail_multiply" -> tail_multiply(args)
      [] operations[operation].function = "tail_exponent" -> tail_exponent(args)

-----------------------------------------------------------------------------
(* Bracket validator *)

\* mutant: the check after the loop, that no "(" is left open, is missing
RECURSIVE brackets_scan_no_final_check(_, _, _)
brackets_scan_no_final_check(expression, k, opening_brackets) ==
    IF k >= Len(expression) THEN TRUE
    ELSE IF At(expression, k) = "("
         THEN brackets_scan_no_final_check(expression, k + 1, opening_brackets + 1)
    ELSE IF At(expression, k) = ")"
         THEN IF opening_brackets <= 0 THEN FALSE
              ELSE brackets_scan_no_final_check(expression, k + 1, opening_brackets - 1)
    ELSE brackets_scan_no_final_check(expression, k + 1, opening_brackets)

\* the for loop of is_brackets_valid from offset k with the counter at
\* opening_brackets
RECURSIVE brackets_scan(_, _, _)
brackets_scan(expression, k, opening_brackets) ==
    IF k >= Len(expression) THEN ~(opening_brackets > 0)
    ELSE IF At(expression, k) = "("
         THEN brackets_scan(expression, k + 1, opening_brackets + 1)
    ELSE IF At(expression, k) = ")"
         THEN IF opening_brackets <= 0 THEN FALSE
              ELSE brackets_scan(expression, k + 1, opening_brackets - 1)
    ELSE brackets_scan(expression, k + 1, opening_brackets)

is_brackets_valid(expression) == brackets_scan(expression, 0, 0)

-----------------------------------------------------------------------------
(* Evaluator state *)

\* a call of calculator(expression) and its local variables
NewFrame(expression) ==
    [expression |-> expression, pc |-> "entry", operation |-> <<>>,
     start_index |-> 0, end_index |-> 0, i |-> 0,
     evaluated_arguments |-> <<>>, open_brackets_count |-> 0,
     argument_spans |-> <<>>]

NoResult == [kind |-> "running", value |-> 0, expression |-> <<>>, message |-> ""]

IntResult(v) == [kind |-> "int", value |-> v, expression |-> <<>>, message |-> ""]

ExpressionError(expression, message) ==
    [kind |-> "ExpressionError", value |-> 0, expression |-> expression,
     message |-> message]

\* an exception of the interpreter that is not an ExpressionError
BuiltinError(name) == [kind |-> name, value |-> 0, expression |-> <<>>, message |-> ""]

NoCall == [kind |-> "none", expression |-> <<>>, operation |-> <<>>,
           argument_spans |-> <<>>, value |-> 0]

Running == result.kind = "running" /\ Len(stack) > 0

top == stack[Len(stack)]

SetTop(frame) == [stack EXCEPT ![Len(stack)] = frame]

\* offset of the first space of s, or -1: where split(' ', 1) cuts
RECURSIVE find_space(_, _)
find_space(s, k) ==
    IF k >= Len(s) THEN -1
    ELSE IF At(s, k) = " " THEN k
    ELSE find_space(s, k + 1)

inner_content(expression) == Slice(expression, 1, Len(expression) - 1)

\* parsed_function_expression[0]
operation_of(expression) ==
    Slice(inner_content(expression), 0, find_space(inner_content(expression), 0))

\* mutant: the operation is looked up before the split is validated
calculator_branch_operation_first(expression) ==
    IF ~is_brackets_valid(expression) THEN "unbalanced"
    ELSE IF isnumeric(expression) THEN "numeral"
    ELSE IF Len(expression) < 2 \/ At(expression, 0) # "("
            \/ At(expression, Len(expression) - 1) # ")" THEN "not_bracketed"
    ELSE IF operation_of(expression) \notin DOMAIN operations THEN "invalid_operation"
    ELSE IF find_space(inner_content(expression), 0) = -1 THEN "missing_param"
    ELSE "call"

\* the branch that calculator takes on entry
calculator_branch(expression) ==
    IF ~is_brackets_valid(expression) THEN "unbalanced"
    ELSE IF isnumeric(expression) THEN "numeral"
    ELSE IF Len(expression) < 2 \/ At(expression, 0) # "("
            \/ At(expression, Len(expression) - 1) # ")" THEN "not_bracketed"
    ELSE IF find_space(inner_content(expression), 0) = -1 THEN "missing_param"
    ELSE IF operation_of(expression) \notin DOMAIN operations THEN "invalid_operation"
    ELSE "call"

\* an exception leaves calculator: the frames stay as the traceback
Raise(error) ==
    /\ result' = error
    /\ UNCHANGED <<input, stack, completed>>

\* mutant: the cursor is not moved past the argument
Return_cursor_kept(v) ==
    IF Len(stack) = 1
    THEN /\ stack' = <<>>
         /\ result' = IntResult(v)
    ELSE LET caller == stack[Len(stack) - 1] IN
         /\ stack' = [SubSeq(stack, 1, Len(stack) - 1) EXCEPT ![Len(stack) - 1] =
                [caller EXCEPT
                   !.evaluated_arguments = Append(@, v),
                   !.argument_spans = Append(@, <<caller.start_index, caller.end_index>>),
                   !.i = @ + 1,
                   !.pc = "loop"]]
         /\ result' = result

\* the frame on top returns v: to the caller of the run, or into the
\* argument loop of the calling frame
Return(v) ==
    IF Len(stack) = 1
    THEN /\ stack' = <<>>
         /\ result' = IntResult(v)
    ELSE LET caller == stack[Len(stack) - 1] IN
         /\ stack' = [SubSeq(stack, 1, Len(stack) - 1) EXCEPT ![Len(stack) - 1] =
                [caller EXCEPT
                   !.evaluated_arguments = Append(@, v),
                   !.argument_spans = Append(@, <<caller.start_index, caller.end_index>>),
                   !.start_index = caller.end_index + 1,
                   !.i = @ + 1,
                   !.pc = "loop"]]
         /\ result' = result

-----------------------------------------------------------------------------
(* Actions *)

Unbalanced ==
    /\ Running /\ top.pc = "entry"
    /\ calculator_branch(top.expression) = "unbalanced"
    /\ Raise(ExpressionError(top.expression, ERROR_FUNCTION_MISSING_BRACKETS))

Numeral ==
    /\ Running /\ top.pc = "entry"
    /\ calculator_branch(top.expression) = "numeral"
    /\ IF int_accepts(top.expression)
       THEN Return(int(top.expression)) /\ UNCHANGED <<input, completed>>
       ELSE Raise(BuiltinError("ValueError"))

NotBracketed ==
    /\ Running /\ top.pc = "entry"
    /\ calculator_branch(top.expression) = "not_bracketed"
    /\ Raise(ExpressionError(top.expression, ERROR_FUNCTION_MISSING_BRACKETS))

MissingParam ==
    /\ Running /\ top.pc = "entry"
    /\ calculator_branch(top.expression) = "missing_param"
    /\ Raise(ExpressionError(top.expression, ERROR_FUNCTION_MISSING_PARAM))

\* mutant: the unknown operation is reported with the message of the
\* missing argument part
InvalidOperation_wrong_message ==
    /\ Running /\ top.pc = "entry"
    /\ calculator_branch(top.expression) = "invalid_operation"
    /\ Raise(ExpressionError(top.expression, ERROR_FUNCTION_MISSING_PARAM))

InvalidOperation ==
    /\ Running /\ top.pc = "entry"
    /\ calculator_branch(top.expression) = "invalid_operation"
    /\ Raise(ExpressionError(top.expression, ERROR_FUNCTION_INVALID_OPERATION))

BeginCall ==
    /\ Running /\ top.pc = "entry"
    /\ calculator_branch(top.expression) = "call"
    /\ stack' = SetTop([top EXCEPT
                          !.operation = operation_of(top.expression),
                          !.start_index = Len(operation_of(top.expression)) + 2,
                          !.i = 0,
                          !.evaluated_arguments = <<>>,
                          !.pc = "loop"])
    /\ UNCHANGED <<input, result, completed>>

is_arguments_unlimited(frame) == operations[frame.operation].arguments_count = 0

\* the condition of the argument loop
loop_condition(frame) ==
    \/ is_arguments_unlimited(frame) /\ frame.start_index < Len(frame.expression)
    \/ ~is_arguments_unlimited(frame)
         /\ frame.i < operations[frame.operation].arguments_count

\* one more argument: find_end_of_expression is entered
FindEnd ==
    /\ Running /\ top.pc = "loop"
    /\ loop_condition(top)
    /\ IF top.start_index >= Len(top.expression)
       THEN Raise(BuiltinError("IndexError"))
       ELSE /\ stack' = SetTop(
                  IF At(top.expression, top.start_index) # "("
                  THEN [top EXCEPT !.end_index = top.start_index + 1,
                                   !.pc = "scan_numeral"]
                  ELSE [top EXCEPT !.end_index = top.start_index + 1,
                                   !.open_brackets_count = 1,
                                   !.pc = "scan_brackets"])
            /\ UNCHANGED <<input, result, completed>>

\* mutant: the numeral loop does not test isnumeric
ScanNumeral_unchecked ==
    /\ Running /\ top.pc = "scan_numeral"
    /\ IF /\ top.end_index < Len(top.expression)
          /\ At(top.expression, top.end_index) # " "
          /\ At(top.expression, top.end_index) # ")"
       THEN /\ stack' = SetTop([top EXCEPT !.end_index = @ + 1])
            /\ UNCHANGED <<input, result, completed>>
       ELSE /\ stack' = SetTop([top EXCEPT !.pc = "found"])
            /\ UNCHANGED <<input, result, completed>>

\* one test of the numeral loop of find_end_of_expression
ScanNumeral ==
    /\ Running /\ top.pc = "scan_numeral"
    /\ IF /\ top.end_index < Len(top.expression)
          /\ At(top.expression, top.end_index) # " "
          /\ At(top.expression, top.end_index) # ")"
       THEN IF ~char_isnumeric(At(top.expression, top.end_index))
            THEN Raise(ExpressionError(top.expression, ERROR_FUNCTION_INVALID_INPUTS))
            ELSE /\ stack' = SetTop([top EXCEPT !.end_index = @ + 1])
                 /\ UNCHANGED <<input, result, completed>>
       ELSE /\ stack' = SetTop([top EXCEPT !.pc = "found"])
            /\ UNCHANGED <<input, result, completed>>

\* one test of the bracket loop of find_end_of_expression
ScanBrackets ==
    /\ Running /\ top.pc = "scan_brackets"
    /\ IF top.open_brackets_count # 0
       THEN IF top.end_index >= Len(top.expression)
            THEN Raise(BuiltinError("IndexError"))
            ELSE /\ stack' = SetTop([top EXCEPT
                      !.open_brackets_count =
                          IF At(top.expression, top.end_index) = "(" THEN @ + 1
                          ELSE IF At(top.expression, top.end_index) = ")" THEN @ - 1
                          ELSE @,
                      !.end_index = @ + 1])
                 /\ UNCHANGED <<input, result, completed>>
       ELSE /\ stack' = SetTop([top EXCEPT !.pc = "found"])
            /\ UNCHANGED <<input, result, completed>>

\* the argument is sliced out and calculator is called on it
Recurse ==
    /\ Running /\ top.pc = "found"
    /\ stack' = Append(SetTop([top EXCEPT !.pc = "calling"]),
                       NewFrame(Slice(top.expression, top.start_index, top.end_index)))
    /\ UNCHANGED <<input, result, completed>>

\* mutant: the count check after the loop is missing
Finish_without_count_check ==
    /\ Running /\ top.pc = "loop"
    /\ ~loop_condition(top)
    /\ Return(operation_function(top.operation, top.evaluated_arguments))
    /\ completed' = [kind |-> "call", expression |-> top.expression,
                     operation |-> top.operation,
                     argument_spans |-> top.argument_spans,
                     value |-> operation_function(top.operation,
                                                  top.evaluated_arguments)]
    /\ input' = input

\* the argument loop has ended: count check and reducer
Finish ==
    /\ Running /\ top.pc = "loop"
    /\ ~loop_condition(top)
    /\ IF ~is_arguments_unlimited(top) /\ top.start_index < Len(top.expression)
       THEN Raise(ExpressionError(top.expression,
                                  ERROR_FUNCTION_INVALID_ARGUMENTS_COUNT))
       ELSE /\ Return(operation_function(top.operation, top.evaluated_arguments))
            /\ completed' = [kind |-> "call", expression |-> top.expression,
                             operation |-> top.operation,
                             argument_spans |-> top.argument_spans,
                             value |-> operation_function(top.operation,
                                                          top.evaluated_arguments)]
            /\ input' = input

Next ==
    \/ Unbalanced
    \/ Numeral
    \/ NotBracketed
    \/ MissingParam
    \/ InvalidOperation
    \/ BeginCall
    \/ FindEnd
    \/ ScanNumeral
    \/ ScanBrackets
    \/ Recurse
    \/ Finish

-----------------------------------------------------------------------------
(* Input strings: call-shaped strings over the registered operation names,  *)
(* any number of arguments, and every string one character edit away        *)

GenDigits == {"2", "3"}

\* characters written over any character of a generated string
EditChars == {"x", " "}

\* characters written over a digit of a generated string
DigitEdits == {"0", SUPERSCRIPT_TWO}

\* Generated[n].exprs: the strings of size exactly n, where a numeral has
\* size 1 and a call has size 2 more than its arguments;
\* Generated[n].arglists: the space-separated lists of total size n
Generated[n \in 0..MaxSize] ==
    IF n = 0 THEN [exprs |-> {}, arglists |-> {}]
    ELSE LET exprs ==
               IF n = 1 THEN {<<d>> : d \in GenDigits}
               ELSE IF n = 2 THEN {}
               ELSE {<<"(">> \o op \o <<" ">> \o al \o <<")">> :
                        op \in DOMAIN operations, al \in Generated[n - 2].arglists}
         IN [exprs |-> exprs,
             arglists |-> exprs \cup UNION {{a \o <<" ">> \o r :
                                a \in Generated[k].exprs,
                                r \in Generated[n - k].arglists} : k \in 1..(n - 1)}]

Shapes == UNION {Generated[n].exprs : n \in 1..MaxSize}

Replace(s, p, c) == [s EXCEPT ![p] = c]

Delete(s, p) == SubSeq(s, 1, p - 1) \o SubSeq(s, p + 1, Len(s))

Inputs ==
    Shapes
    \cup UNION {{Delete(s, p) : p \in 1..Len(s)} : s \in Shapes}
    \cup UNION {{Replace(s, p, c) : p \in 1..Len(s), c \in EditChars} : s \in Shapes}
    \cup UNION {{Replace(s, p, c) : p \in {q \in 1..Len(s) : s[q] \in GenDigits},
                                    c \in DigitEdits} : s \in Shapes}

-----------------------------------------------------------------------------
(* Specification *)

Init ==
    /\ input \in Inputs
    /\ stack = <<NewFrame(input)>>
    /\ result = NoResult
    /\ completed = NoCall

Spec == Init /\ [][Next]_vars

\* the interpreter keeps running the call until it returns or raises
FairSpec == Spec /\ WF_vars(Next)

-----------------------------------------------------------------------------
(* Reference definitions for the properties: the grammar                    *)
(*   digit = "0".."9"   integer = digit, {digit}   expr = integer | call    *)
(*   call = "(", operation, " ", arglist, ")"                               *)
(* read as a recogniser with values, and bracket balance by counting.       *)

Done == result.kind # "running"

RefDigitChars == <<"0", "1", "2", "3", "4", "5", "6", "7", "8", "9">>

RefIsDigit(c) == \E k \in 1..Len(RefDigitChars) : RefDigitChars[k] = c

RefDigit(c) == (CHOOSE k \in 1..Len(RefDigitChars) : RefDigitChars[k] = c) - 1

\* the offset after the run of digits that starts at offset p
RefDigitsEnd(s, p) ==
    CHOOSE q \in p..Len(s) :
        /\ q = Len(s) \/ ~RefIsDigit(At(s, q))
        /\ \A j \in p..(q - 1) : RefIsDigit(At(s, j))

\* decimal value of the digits at offsets p..q-1
RECURSIVE RefDecimal(_, _, _)
RefDecimal(s, p, q) ==
    IF q <= p THEN 0
    ELSE Sat(10 * RefDecimal(s, p, q - 1) + RefDigit(At(s, q - 1)))

RECURSIVE RefSum(_)
RefSum(values) ==
    IF values = <<>> THEN 0 ELSE Sat(values[1] + RefSum(Tail(values)))

RECURSIVE RefProduct(_)
RefProduct(values) ==
    IF values = <<>> THEN 1 ELSE Sat(values[1] * RefProduct(Tail(values)))

\* acc * b ** p for b >= 2, cut off as soon as it exceeds MaxInt
RECURSIVE RefPowerFrom(_, _, _)
RefPowerFrom(b, p, acc) ==
    IF acc > MaxInt THEN Big
    ELSE IF p = 0 THEN acc
    ELSE RefPowerFrom(b, p - 1, acc * b)

RefPower(b, p) ==
    IF p = 0 THEN 1
    ELSE IF b <= 1 THEN b
    ELSE RefPowerFrom(b, p, 1)

RefNames == {ADD, MULTIPLY, EXPONENT}

RefHasAt(s, p, w) == p + Len(w) <= Len(s) /\ SubSeq(s, p + 1, p + Len(w)) = w

RefHead(op) == <<"(">> \o op \o <<" ">>

RefNoExpr == [ok |-> FALSE, end |-> 0, value |-> 0]

RefNoArgs == [ok |-> FALSE, end |-> 0, values |-> <<>>]

\* RefExpr(s, p): the expr of the grammar that starts at offset p, the offset
\* after it and its value; RefArgs: the rest of an arglist and its ")"
RECURSIVE RefExpr(_, _), RefArgs(_, _, _)
RefExpr(s, p) ==
    IF p < Len(s) /\ RefIsDigit(At(s, p))
    THEN [ok |-> TRUE, end |-> RefDigitsEnd(s, p),
          value |-> RefDecimal(s, p, RefDigitsEnd(s, p))]
    ELSE IF \E op \in RefNames : RefHasAt(s, p, RefHead(op))
    THEN LET op == CHOOSE o \in RefNames : RefHasAt(s, p, RefHead(o))
             args == RefArgs(s, p + Len(op) + 2, <<>>)
         IN IF ~args.ok \/ (op = EXPONENT /\ Len(args.values) # 2) THEN RefNoExpr
            ELSE [ok |-> TRUE, end |-> args.end,
                  value |-> IF op = ADD THEN RefSum(args.values)
                            ELSE IF op = MULTIPLY THEN RefProduct(args.values)
                            ELSE RefPower(args.values[1], args.values[2])]
    ELSE RefNoExpr

RefArgs(s, p, values) ==
    LET a == RefExpr(s, p) IN
    IF ~a.ok THEN RefNoArgs
    ELSE IF a.end < Len(s) /\ At(s, a.end) = ")"
    THEN [ok |-> TRUE, end |-> a.end + 1, values |-> Append(values, a.value)]
    ELSE IF a.end < Len(s) /\ At(s, a.end) = " "
    THEN RefArgs(s, a.end + 1, Append(values, a.value))
    ELSE RefNoArgs

InGrammar(s) == RefExpr(s, 0).ok /\ RefExpr(s, 0).end = Len(s)

GrammarValue(s) == RefExpr(s, 0).value

RefCount(s, c, k) == Cardinality({j \in 1..k : s[j] = c})

\* every ")" has an earlier unmatched "(" and no "(" is left unmatched
RefBalanced(s) ==
    /\ \A k \in 0..Len(s) : RefCount(s, "(", k) >= RefCount(s, ")", k)
    /\ RefCount(s, "(", Len(s)) = RefCount(s, ")", Len(s))

\* consists of decimal digits
RefNumeral(s) == Len(s) > 0 /\ \A k \in 1..Len(s) : RefIsDigit(s[k])

RefBracketed(s) == Len(s) >= 2 /\ s[1] = "(" /\ s[Len(s)] = ")"

RefInner(s) == SubSeq(s, 2, Len(s) - 1)

RefHasSpace(s) == \E k \in 1..Len(s) : s[k] = " "

\* the text before the first space of s
RefBeforeSpace(s) ==
    SubSeq(s, 1, (CHOOSE k \in 1..Len(s) :
                      s[k] = " " /\ \A j \in 1..(k - 1) : s[j] # " ") - 1)

RefIsTerminator(s, k) == k >= Len(s) \/ At(s, k) = " " \/ At(s, k) = ")"

\* the offset of the first space, ")" or end of string at or after offset from
RefFirstTerminator(s, from) ==
    CHOOSE q \in from..Len(s) :
        /\ RefIsTerminator(s, q)
        /\ \A j \in from..(q - 1) : ~RefIsTerminator(s, j)

-----------------------------------------------------------------------------
(* Properties *)

\* C1: for every input string that conforms to the grammar, calculator
\* returns the integer obtained by evaluating it bottom-up: decimal value of
\* a digit string, sum for add, product for multiply, first argument raised
\* to the second for exponent.
C1_GrammarValue ==
    (Done /\ InGrammar(input)) => result = IntResult(GrammarValue(input))

\* C1 witness: a nested exponent call of the grammar has returned 3 ** 2
C1_Witness ==
    /\ InGrammar(input)
    /\ result = IntResult(9)
    /\ completed.operation = EXPONENT
    /\ Len(input) > 14

\* C2: calculator returns an integer only if the input string is an
\* expression of the grammar.
C2_IntegerOnlyForGrammar ==
    result.kind = "int" => InGrammar(input)

ExpressionErrorKinds ==
    {ERROR_FUNCTION_MISSING_BRACKETS, ERROR_FUNCTION_MISSING_PARAM,
     ERROR_FUNCTION_INVALID_OPERATION, ERROR_FUNCTION_INVALID_INPUTS,
     ERROR_FUNCTION_INVALID_ARGUMENTS_COUNT}

\* C3: every failure of calculator is an ExpressionError of one of the five
\* kinds; no evaluation ends in any other kind of failure.
C3_OnlyExpressionErrors ==
    Done => \/ result.kind = "int"
            \/ result.kind = "ExpressionError" /\ result.message \in ExpressionErrorKinds

\* C4: an input string with unbalanced brackets fails with MissingBrackets
\* carrying the whole string, before the operation name or any argument is
\* examined: the call never leaves its entry, and so does every nested call
\* on an unbalanced argument.
C4_UnbalancedMissingBrackets ==
    /\ RefBalanced(input) \/ Len(stack) = 1
    /\ \A k \in 1..Len(stack) :
          ~RefBalanced(stack[k].expression) =>
              /\ k = Len(stack)
              /\ stack[k] = NewFrame(stack[k].expression)
              /\ \/ result = NoResult
                 \/ result = ExpressionError(stack[k].expression,
                                             ERROR_FUNCTION_MISSING_BRACKETS)

\* C4 witness: an unbalanced call-shaped input has failed with MissingBrackets
C4_Witness ==
    /\ ~RefBalanced(input)
    /\ Len(input) > 5
    /\ result = ExpressionError(input, ERROR_FUNCTION_MISSING_BRACKETS)

\* the exponent call on top has collected its two arguments and the cursor
\* has not reached the end of the expression
TooManyArguments ==
    /\ Running /\ top.pc = "loop"
    /\ top.operation = EXPONENT
    /\ Len(top.evaluated_arguments) = 2
    /\ top.start_index < Len(top.expression)

\* C5: an exponent call that has collected two arguments without reaching
\* the end of the expression fails with InvalidArgumentsCount carrying that
\* call expression, and the reducer is not applied.
C5_TooManyArguments ==
    [][TooManyArguments =>
          /\ result' = ExpressionError(top.expression,
                                       ERROR_FUNCTION_INVALID_ARGUMENTS_COUNT)
          /\ completed' = completed
          /\ stack' = stack]_vars

\* C5 witness: an exponent call with three numeral arguments has failed
C5_Witness ==
    /\ result.kind = "ExpressionError"
    /\ result.message = ERROR_FUNCTION_INVALID_ARGUMENTS_COUNT
    /\ Len(stack) = 1
    /\ result.expression = input
    /\ Len(top.evaluated_arguments) = 2
    /\ At(top.expression, top.start_index) \in GenDigits

UnknownOperation(s) ==
    /\ RefBalanced(s) /\ ~RefNumeral(s) /\ RefBracketed(s)
    /\ RefHasSpace(RefInner(s))
    /\ RefBeforeSpace(RefInner(s)) \notin RefNames

\* C6: a balanced, non-numeral string in brackets whose inner content has a
\* space and whose text before the first space is not add, multiply or
\* exponent fails with InvalidOperation carrying that string, and no
\* argument is evaluated.
C6_InvalidOperation ==
    [][(Running /\ top.pc = "entry" /\ UnknownOperation(top.expression)) =>
          /\ result' = ExpressionError(top.expression,
                                       ERROR_FUNCTION_INVALID_OPERATION)
          /\ stack' = stack]_vars

\* C6 witness: an unknown operation with a malformed argument has failed
C6_Witness ==
    /\ UnknownOperation(input)
    /\ result = ExpressionError(input, ERROR_FUNCTION_INVALID_OPERATION)
    /\ \E k \in 1..Len(input) : input[k] = "(" /\ k > 1

NoArgumentPart(s) ==
    /\ RefBalanced(s) /\ ~RefNumeral(s) /\ RefBracketed(s)
    /\ ~RefHasSpace(RefInner(s))

\* C7: a balanced, non-numeral string in brackets whose inner content has
\* no space fails with MissingParam carrying that string, whether or not
\* the inner content names a registered operation.
C7_MissingParam ==
    [][(Running /\ top.pc = "entry" /\ NoArgumentPart(top.expression)) =>
          /\ result' = ExpressionError(top.expression, ERROR_FUNCTION_MISSING_PARAM)
          /\ stack' = stack]_vars

\* C7 witness: a nested call without a space has failed with MissingParam
C7_Witness ==
    /\ Len(stack) = 2
    /\ NoArgumentPart(top.expression)
    /\ result = ExpressionError(top.expression, ERROR_FUNCTION_MISSING_PARAM)

\* C8: in every function-call evaluation that returns an integer the
\* argument substrings are taken left to right, start right after the
\* operation name, are separated by exactly one character that is a space,
\* and the last one ends immediately before the closing bracket.
C8_ArgumentsCoverInner ==
    completed.kind = "call" =>
        LET spans == completed.argument_spans
            e == completed.expression
        IN /\ Len(spans) >= 1
           /\ spans[1][1] = Len(completed.operation) + 2
           /\ \A j \in 1..Len(spans) : spans[j][1] < spans[j][2]
           /\ \A j \in 1..(Len(spans) - 1) :
                 /\ spans[j + 1][1] = spans[j][2] + 1
                 /\ At(e, spans[j][2]) = " "
           /\ spans[Len(spans)][2] = Len(e) - 1

\* frames in which find_end_of_expression has returned for a numeral unit
NumeralFound(frame) ==
    /\ frame.pc \in {"found", "calling"}
    /\ At(frame.expression, frame.start_index) # "("

RefIsNumeric(c) == RefIsDigit(c) \/ c = SUPERSCRIPT_TWO

\* C9 as stated: the unit runs from the start offset to the first space, ")"
\* or end of string, every character of it including the one at the start
\* offset is a digit when find_end_of_expression returns, and the returned
\* offset is that first terminator.
C9_StartCharacterChecked ==
    \A k \in 1..Len(stack) :
        NumeralFound(stack[k]) =>
            LET e == stack[k].expression
                start == stack[k].start_index
            IN /\ stack[k].end_index = RefFirstTerminator(e, start)
               /\ \A j \in start..(stack[k].end_index - 1) : RefIsNumeric(At(e, j))

\* C9 amended: the character at the start offset is not examined.  The
\* scan begins one past the start offset: find_end_of_expression returns
\* the offset of the first space, ")" or end of string found from there, and
\* only when every character before it is numeric; it fails with
\* InvalidInput, carrying the whole expression, exactly at a character
\* after the start offset and before that terminator that is not numeric.
C9_ScanAfterStart ==
    /\ \A k \in 1..Len(stack) :
          NumeralFound(stack[k]) =>
              LET e == stack[k].expression
                  start == stack[k].start_index
              IN /\ stack[k].end_index = RefFirstTerminator(e, start + 1)
                 /\ \A j \in (start + 1)..(stack[k].end_index - 1) :
                       RefIsNumeric(At(e, j))
    /\ (result.kind = "ExpressionError"
          /\ result.message = ERROR_FUNCTION_INVALID_INPUTS) =>
          /\ top.pc = "scan_numeral"
          /\ At(top.expression, top.start_index) # "("
          /\ result.expression = top.expression
          /\ top.end_index < RefFirstTerminator(top.expression, top.start_index + 1)
          /\ ~RefIsNumeric(At(top.expression, top.end_index))
          /\ \A j \in (top.start_index + 1)..(top.end_index - 1) :
                RefIsNumeric(At(top.expression, j))
    /\ \A k \in 1..Len(stack) :
          (stack[k].pc = "scan_numeral" /\ ~Done) =>
              /\ stack[k].end_index <=
                    RefFirstTerminator(stack[k].expression, stack[k].start_index + 1)
              /\ \A j \in (stack[k].start_index + 1)..(stack[k].end_index - 1) :
                    RefIsNumeric(At(stack[k].expression, j))

\* C9 witness: find_end_of_expression has returned for a unit whose first
\* character is not a digit
C9_Witness ==
    /\ Running
    /\ NumeralFound(top)
    /\ top.pc = "found"
    /\ ~RefIsNumeric(At(top.expression, top.start_index))
    /\ top.end_index > top.start_index + 1

\* a recursive call is made on a string strictly shorter than the caller's
RecursionShrinks ==
    (Len(stack') > Len(stack)) =>
        Len(stack'[Len(stack')].expression) < Len(top.expression)

\* the argument cursor strictly increases on every iteration of the loop
CursorAdvances ==
    (Len(stack') < Len(stack) /\ Len(stack') > 0) =>
        stack'[Len(stack')].start_index > stack[Len(stack')].start_index

\* the scans of find_end_of_expression move forward and stay inside the string
ScanAdvances ==
    (Running /\ top.pc \in {"scan_numeral", "scan_brackets"}) =>
        \/ result'.kind = "ExpressionError"
        \/ /\ Len(stack') = Len(stack)
           /\ stack'[Len(stack)].end_index <= Len(top.expression)
           /\ \/ stack'[Len(stack)].end_index > top.end_index
              \/ stack'[Len(stack)].pc = "found"

\* C10: calculator terminates on every input string, with an integer or a
\* failure: every recursive call is on a strictly shorter string, the
\* argument cursor strictly increases, and both scans end.
C10_Terminates ==
    /\ <>Done
    /\ [][RecursionShrinks /\ CursorAdvances /\ ScanAdvances]_vars

\* C10 witness: a run with a nested bracketed argument has returned
C10_Witness ==
    /\ result.kind = "int"
    /\ completed.kind = "call"
    /\ \E j \in 1..Len(completed.argument_spans) :
          At(completed.expression, completed.argument_spans[j][1]) = "("

====
